---- MODULE Spec2Model ----
(***************************************************************************)
(* PBSO Booking Blotter: the Search Task (scrapers/worker.py), the         *)
(* Aggregator (scrapers/parallel_scraper.py) and the GUI thread's event    *)
(* queue that carries their signals.                                       *)
(*                                                                         *)
(* Text is modelled as a sequence of tokens.  A token is a record          *)
(*   [k |-> kind, s |-> characters, n |-> number]                          *)
(* of kind "sp" (a run of blanks), "w" (a chunk of other characters),      *)
(* "lbl" (a field label such as "Release Date:"), "num" (a run of digits), *)
(* "d4" (MM/DD/YYYY, n = the day's number), "d2" (MM/DD/YY), "hm" (HH:MM,  *)
(* n = minute of the day) and "hms" (HH:MM:SS).  A datetime is a number of *)
(* minutes: day * MinutesPerDay + minute of the day.                       *)
(***************************************************************************)
EXTENDS Integers, Sequences, FiniteSets, TLC

\* ------------------------------------------------------------------ bounds
\* Number of names of a run (len(names_list)).
NumTasks == 2
\* Largest number of booking entries one search returns.
MaxBatch == 1
\* Largest max_workers setting of a run.
MaxWorkers == 1
\* Latest day number the clock and the sample dates reach.
MaxDay == 11
\* Largest number of searches started in one window.
MaxSearches == 2

\* ---------------------------------------------------------------- constants
MinutesPerDay == 1440
\* More names than this and run_search asks for a confirmation.
ConfirmThreshold == 50

\* ------------------------------------------------------------------ tokens
Sp == [k |-> "sp", s |-> " ", n |-> 0]
W(str) == [k |-> "w", s |-> str, n |-> 0]
Lbl(str) == [k |-> "lbl", s |-> str, n |-> 0]
Num(i) == [k |-> "num", s |-> "", n |-> i]
D4(d) == [k |-> "d4", s |-> "", n |-> d]
D2(d) == [k |-> "d2", s |-> "", n |-> d]
HM(m) == [k |-> "hm", s |-> "", n |-> m]
HMS(m) == [k |-> "hms", s |-> "", n |-> m]

\* Python's None (a missing value), distinct from every text.
None == <<[k |-> "none", s |-> "", n |-> 0]>>

\* str.lower() on one chunk of characters; digits and punctuation have no case.
LowerStr(str) ==
    CASE str = "N/A" -> "n/a"
      [] str = "Unknown" -> "unknown"
      [] str = "UNKNOWN" -> "unknown"
      [] str = "Still in custody" -> "still in custody"
      [] str = "Time:" -> "time:"
      [] str = "TIME:" -> "time:"
      [] str = "Main Jail" -> "main jail"
      [] str = "MAIN JAIL" -> "main jail"
      [] str = "West Detention Center" -> "west detention center"
      [] str = "Surety Bond" -> "surety bond"
      [] str = "Not specified" -> "not specified"
      [] str = "Released" -> "released"
      [] str = "Pending" -> "pending"
      [] str = "NO FILE" -> "no file"
      [] str = "No File" -> "no file"
      [] str = "Release Date:" -> "release date:"
      [] str = "Booking Date/Time:" -> "booking date/time:"
      [] str = "Booking Number:" -> "booking number:"
      [] str = "Cell Location:" -> "cell location:"
      [] str = "Facility:" -> "facility:"
      [] str = "Charges:" -> "charges:"
      [] OTHER -> str

\* str.lower() on a text.
Lower(text) == [i \in 1..Len(text) |-> [text[i] EXCEPT !.s = LowerStr(text[i].s)]]

\* str.strip(): leading and trailing white space (blanks, line breaks) removed.
RECURSIVE LStrip(_)
LStrip(text) ==
    IF text # <<>> /\ Head(text).k \in {"sp", "nl"} THEN LStrip(Tail(text)) ELSE text

RECURSIVE RStrip(_)
RStrip(text) ==
    IF text # <<>> /\ text[Len(text)].k \in {"sp", "nl"}
      THEN RStrip(SubSeq(text, 1, Len(text) - 1))
      ELSE text

Strip(text) == RStrip(LStrip(text))

\* The words of the custody vocabulary that occur inside a chunk of characters
\* (the `in` substring test on the chunks the model uses).
IndicatorsIn(str) ==
    CASE str = "main jail" -> {"jail"}
      [] str = "west detention center" -> {"detention", "center"}
      [] str = "surety bond" -> {"surety bond"}
      [] str = "cellblock c" -> {"cell", "block"}
      [] str = "holding" -> {"holding"}
      [] OTHER -> {}

\* indicator in text
Contains(text, indicator) ==
    \E i \in 1..Len(text) : indicator \in IndicatorsIn(text[i].s)

\* ------------------------------------------------------------ date parsing
\* A parse result: ok = FALSE is Python's None, else t is the datetime.
NoDate == [ok |-> FALSE, t |-> 0]
DateAt(day, minute) == [ok |-> TRUE, t |-> day * MinutesPerDay + minute]

\* The kinds of a text's tokens, each run of white space as one "sp" (a blank
\* of a strptime format matches any run of white space).
RECURSIVE Kinds(_)
Kinds(text) ==
    IF text = <<>> THEN <<>>
    ELSE IF Head(text).k \in {"sp", "nl"}
      THEN <<"sp">> \o Kinds(LStrip(text))
      ELSE <<Head(text).k>> \o Kinds(Tail(text))

\* The tokens of a text that are not white space.
Solid(text) == SelectSeq(text, LAMBDA tok : tok.k \notin {"sp", "nl"})

\* datetime.strptime over the ordered format list of parse_date; the first
\* format that matches the whole text wins, no match is None.
StrpFormats(text) ==
    CASE Kinds(text) = <<"d4", "sp", "hm">> -> DateAt(Solid(text)[1].n, Solid(text)[2].n)
      [] Kinds(text) = <<"d4", "sp", "hms">> -> DateAt(Solid(text)[1].n, Solid(text)[2].n)
      [] Kinds(text) = <<"d4">> -> DateAt(text[1].n, 0)
      [] Kinds(text) = <<"d2", "sp", "hm">> -> DateAt(Solid(text)[1].n, Solid(text)[2].n)
      [] Kinds(text) = <<"d2">> -> DateAt(text[1].n, 0)
      [] OTHER -> NoDate

parse_date(date_str) ==
    IF date_str = None \/ date_str = <<>> \/ date_str = <<W("N/A")>>
         \/ date_str = <<W("Still in custody")>>
      THEN NoDate
      ELSE StrpFormats(Strip(date_str))

\* ---------------------------------------------------------- status resolver
custody_indicators ==
    <<"jail", "prison", "facility", "block", "pod", "cell",
      "detention", "surety bond", "bonds", "holding", "center">>

NoDateSentinels == {<<>>, <<W("n/a")>>, <<W("unknown")>>, <<W("still in custody")>>}

\* The normalization without .lower().
NormalizeStr_keeps_case(text) == IF text = None \/ text = <<>> THEN <<>> ELSE Strip(text)

\* str(x).strip().lower() if x else ""
NormalizeStr(text) == IF text = None \/ text = <<>> THEN <<>> ELSE Lower(Strip(text))

\* re.sub(r'\s*time:.*', '', text, flags=re.IGNORECASE): everything from the
\* first "time:" (any case), and the blanks before it, is removed.
RemoveTimeSuffix(text) ==
    LET hits == {i \in 1..Len(text) : LowerStr(text[i].s) = "time:"}
    IN IF hits = {} THEN text
       ELSE LET i == CHOOSE h \in hits : \A g \in hits : h <= g
            IN RStrip(SubSeq(text, 1, i - 1))

\* determine_status with the location keywords checked before the release date.
determine_status_location_first(release_date_arg, cell_location_arg, t) ==
    LET release_date_str == NormalizeStr(release_date_arg)
        cell_location == NormalizeStr(cell_location_arg)
        release_date == parse_date(RemoveTimeSuffix(release_date_str))
    IN IF cell_location # <<>>
            /\ \E i \in 1..Len(custody_indicators) :
                   Contains(cell_location, custody_indicators[i])
         THEN "In Custody"
         ELSE IF release_date_str # <<>> /\ release_date_str \notin NoDateSentinels
                   /\ release_date.ok /\ release_date.t <= t
                THEN "Released"
                ELSE IF release_date_str = <<W("n/a")>> THEN "In Custody" ELSE "Unknown"

determine_status(release_date_arg, cell_location_arg, t) ==
    LET release_date_str == NormalizeStr(release_date_arg)
        cell_location == NormalizeStr(cell_location_arg)
        clean_date == RemoveTimeSuffix(release_date_str)
        release_date == parse_date(clean_date)
    IN IF release_date_str # <<>> /\ release_date_str \notin NoDateSentinels
            /\ release_date.ok /\ release_date.t <= t
         THEN "Released"
         ELSE IF cell_location # <<>>
                   /\ \E i \in 1..Len(custody_indicators) :
                          Contains(cell_location, custody_indicators[i])
                THEN "In Custody"
                ELSE IF release_date_str = <<W("n/a")>>
                       THEN "In Custody"
                       ELSE "Unknown"

\* ---------------------------------------------------------- field extractor
\* "\n" inside a block of text.
NL == [k |-> "nl", s |-> "", n |-> 0]

MinOf(S) == CHOOSE i \in S : \A j \in S : i <= j

\* text.split("\n")
RECURSIVE SplitLines(_)
SplitLines(text) ==
    LET nls == {i \in 1..Len(text) : text[i] = NL}
    IN IF nls = {} THEN <<text>>
       ELSE <<SubSeq(text, 1, MinOf(nls) - 1)>>
              \o SplitLines(SubSeq(text, MinOf(nls) + 1, Len(text)))

\* label in line
HasLabel(line, label) == \E i \in 1..Len(line) : line[i] = Lbl(label)

\* line.replace(label, "")
RemoveLabel(line, label) ==
    SelectSeq(line, LAMBDA tok : tok # Lbl(label))

\* The rest of the line from position p of the text: [^\n]* at p.
RestOfLine(text, p) ==
    LET nls == {i \in p..Len(text) : text[i] = NL}
    IN SubSeq(text, p, IF nls = {} THEN Len(text) ELSE MinOf(nls) - 1)

\* The position after \s* (blanks and line breaks) from p on; Len(text) + 1
\* when only white space follows.
SkipSpace(text, p) ==
    LET solid == {i \in p..Len(text) : text[i].k \notin {"sp", "nl"}}
    IN IF solid = {} THEN Len(text) + 1 ELSE MinOf(solid)

LabelAt(text, label) == {p \in 1..Len(text) : text[p] = Lbl(label)}

\* re.search(r'Cell Location:([^\n]+)', text).group(1), None without a match.
CellLocationMatch(text) ==
    LET hits == {p \in LabelAt(text, "Cell Location:") :
                     p < Len(text) /\ text[p + 1] # NL}
    IN IF hits = {} THEN None ELSE RestOfLine(text, MinOf(hits) + 1)

\* re.search(r'Booking Number:\s*(\d+)', text).group(1), None without a match.
BookingNumberMatch(text) ==
    LET hits == {p \in LabelAt(text, "Booking Number:") :
                     /\ SkipSpace(text, p + 1) <= Len(text)
                     /\ text[SkipSpace(text, p + 1)].k = "num"}
    IN IF hits = {} THEN None ELSE <<text[SkipSpace(text, MinOf(hits) + 1)]>>

\* re.search(r'Booking Date/Time:\s*(\d{2}/\d{2}/\d{4}\s+\d{2}:\d{2})', text):
\* the date, the white space and the HH:MM that follow the label (the seconds
\* of an HH:MM:SS are left out of the group).
BookingDateMatch(text) ==
    LET hits == {p \in LabelAt(text, "Booking Date/Time:") :
                   LET q == SkipSpace(text, p + 1)
                   IN /\ q <= Len(text) /\ text[q].k = "d4"
                      /\ q < Len(text) /\ text[q + 1].k \in {"sp", "nl"}
                      /\ SkipSpace(text, q + 1) <= Len(text)
                      /\ text[SkipSpace(text, q + 1)].k \in {"hm", "hms"}}
    IN IF hits = {} THEN None
       ELSE LET q == SkipSpace(text, MinOf(hits) + 1)
                r == SkipSpace(text, q + 1)
            IN SubSeq(text, q, r - 1) \o <<HM(text[r].n)>>

\* re.search(r'Release Date:\s*([^\n]+)', text).group(1).strip(): \s* runs
\* over blanks and line breaks, the group is the rest of the line it stops on
\* (a lone blank when only white space follows the label).
ReleaseDateMatch(text) ==
    LET hits == {p \in LabelAt(text, "Release Date:") :
                   \/ SkipSpace(text, p + 1) <= Len(text)
                   \/ \E i \in (p + 1)..Len(text) : text[i].k = "sp"}
    IN IF hits = {} THEN None
       ELSE LET q == SkipSpace(text, MinOf(hits) + 1)
            IN IF q <= Len(text) THEN Strip(RestOfLine(text, q)) ELSE <<>>

\* Python's `x or default`: None and the empty string give the default.
OrDefault(value, default) == IF value = None \/ value = <<>> THEN default ELSE value

ChargeStops == {Lbl("Bond:"), Lbl("Original Bond:"), Lbl("Current Bond:"),
                W("Bond Information"), Lbl("Release Date:")}

\* The stripped non-empty lines from line j on, up to the first line that
\* holds a section keyword.
RECURSIVE ChargeLines(_, _)
ChargeLines(lines, j) ==
    IF j > Len(lines) \/ \E i \in 1..Len(lines[j]) : lines[j][i] \in ChargeStops
      THEN <<>>
      ELSE (IF Strip(lines[j]) # <<>> THEN <<Strip(lines[j])>> ELSE <<>>)
             \o ChargeLines(lines, j + 1)

\* " | ".join(charges) if charges else None
RECURSIVE JoinCharges(_)
JoinCharges(charges) ==
    IF charges = <<>> THEN None
    ELSE IF Len(charges) = 1 THEN charges[1]
    ELSE charges[1] \o <<Sp, W("|"), Sp>> \o JoinCharges(Tail(charges))

\* The Cell Location branch: the explicit value, then the line's other text or
\* the next line, then a Facility line; None when none of them returns.
CellLocationValue(text, lines) ==
    LET cell_match == CellLocationMatch(text)
        own == {j \in 1..Len(lines) :
                  /\ HasLabel(lines[j], "Cell Location:")
                  /\ \/ Strip(RemoveLabel(lines[j], "Cell Location:")) # <<>>
                     \/ j + 1 <= Len(lines) /\ Strip(lines[j + 1]) # <<>>}
        fac == {j \in 1..Len(lines) :
                  /\ HasLabel(lines[j], "Facility:")
                  /\ Strip(RemoveLabel(lines[j], "Facility:")) # <<>>
                  /\ Lower(Strip(RemoveLabel(lines[j], "Facility:"))) # <<W("no file")>>}
    IN IF cell_match # None /\ Strip(cell_match) # <<>> THEN Strip(cell_match)
       ELSE IF own # {}
         THEN LET j == MinOf(own)
                  cell_text == Strip(RemoveLabel(lines[j], "Cell Location:"))
              IN IF cell_text # <<>> THEN cell_text ELSE Strip(lines[j + 1])
       ELSE IF fac # {} THEN Strip(RemoveLabel(lines[MinOf(fac)], "Facility:"))
       ELSE None

\* The Charges branch: the lines after a "Charges" header line, else the lines
\* after the first line holding "Charges:".
ChargesValue(lines) ==
    LET heads == {j \in 1..Len(lines) : Strip(lines[j]) = <<W("Charges")>>}
        inline == {j \in 1..Len(lines) : HasLabel(lines[j], "Charges:")}
    IN IF heads # {} THEN JoinCharges(ChargeLines(lines, MinOf(heads) + 1))
       ELSE JoinCharges(ChargeLines(lines, MinOf(inline) + 1))

extract_value(text, label) ==
    IF text = None \/ text = <<>> THEN None
    ELSE LET lines == SplitLines(text)
             found == {i \in 1..Len(lines) : HasLabel(lines[i], label)}
             next_line == IF MinOf(found) + 1 <= Len(lines)
                            THEN Strip(lines[MinOf(found) + 1]) ELSE None
         IN IF found = {} THEN None
            ELSE IF label = "Cell Location:"
              THEN IF CellLocationValue(text, lines) # None
                     THEN CellLocationValue(text, lines) ELSE next_line
            ELSE IF label = "Charges:" THEN ChargesValue(lines)
            ELSE IF label = "Booking Number:" /\ BookingNumberMatch(text) # None
              THEN BookingNumberMatch(text)
            ELSE IF label = "Booking Date/Time:" /\ BookingDateMatch(text) # None
              THEN BookingDateMatch(text)
            ELSE IF label = "Release Date:" /\ ReleaseDateMatch(text) # None
              THEN ReleaseDateMatch(text)
            ELSE next_line

\* --------------------------------------------------------- record normalizer
\* timedelta.days of a difference of two datetimes: whole days, rounded down.
Days(minutes) == minutes \div MinutesPerDay

\* time_served without the two floors (at least 1 day, never negative).
time_served_unfloored(booking_date, release_date, t) ==
    IF booking_date.ok
      THEN IF release_date.ok /\ release_date.t > booking_date.t
             THEN Days(release_date.t - booking_date.t)
             ELSE Days(t - booking_date.t)
      ELSE 0

\* time_served counting the first day too, as validate_record does.
time_served_inclusive(booking_date, release_date, t) ==
    IF booking_date.ok
      THEN IF release_date.ok /\ release_date.t > booking_date.t
             THEN Days(release_date.t - booking_date.t) + 1
             ELSE IF Days(t - booking_date.t) < 0 THEN 0 ELSE Days(t - booking_date.t)
      ELSE 0

\* Time served of one entry, from the parsed booking and release dates and the
\* clock.
time_served(booking_date, release_date, t) ==
    IF booking_date.ok
      THEN IF release_date.ok /\ release_date.t > booking_date.t
             THEN IF Days(release_date.t - booking_date.t) < 1
                    THEN 1
                    ELSE Days(release_date.t - booking_date.t)
             ELSE IF Days(t - booking_date.t) < 0
                    THEN 0
                    ELSE Days(t - booking_date.t)
      ELSE 0

\* The fields the loop of ScraperWorker.run extracts from one entry's text.
booking_number_of(text) == OrDefault(extract_value(text, "Booking Number:"), <<W("Unknown")>>)
booking_date_str_of(text) == OrDefault(extract_value(text, "Booking Date/Time:"), <<W("Unknown")>>)
release_date_str_of(text) == OrDefault(extract_value(text, "Release Date:"), <<W("N/A")>>)
charges_of(text) == OrDefault(extract_value(text, "Charges:"), <<W("Not specified")>>)
cell_location_of(text) == OrDefault(extract_value(text, "Cell Location:"), <<W("Not specified")>>)

\* self.parse_date(release_date_str) if release_date_str != "N/A" else None
release_date_of(text) ==
    IF release_date_str_of(text) # <<W("N/A")>>
      THEN parse_date(release_date_str_of(text)) ELSE NoDate

\* structured_data with the extracted release-date text under Release Date
\* whatever the status.
structured_data_raw_release(name, text, t) ==
    ("Name" :> name)
       @@ ("Booking Number" :> booking_number_of(text))
       @@ ("Booking Date" :> booking_date_str_of(text))
       @@ ("Release Date" :> release_date_str_of(text))
       @@ ("Status" :> determine_status(release_date_str_of(text), cell_location_of(text), t))
       @@ ("Time Served (Days)" :>
             time_served(parse_date(booking_date_str_of(text)), release_date_of(text), t))
       @@ ("Charges" :> charges_of(text))
       @@ ("Cell Location" :> cell_location_of(text))
       @@ ("Raw Data" :> text)

\* The structured_data dictionary of one booking entry, read at clock t.
structured_data(name, text, t) ==
    LET status == determine_status(release_date_str_of(text), cell_location_of(text), t)
    IN ("Name" :> name)
       @@ ("Booking Number" :> booking_number_of(text))
       @@ ("Booking Date" :> booking_date_str_of(text))
       @@ ("Release Date" :> IF status = "Released" THEN release_date_str_of(text)
                                                   ELSE <<W("Still in custody")>>)
       @@ ("Status" :> status)
       @@ ("Time Served (Days)" :>
             time_served(parse_date(booking_date_str_of(text)), release_date_of(text), t))
       @@ ("Charges" :> charges_of(text))
       @@ ("Cell Location" :> cell_location_of(text))
       @@ ("Raw Data" :> text)

\* ------------------------------------------------------------ sample inputs
\* Scenario 1: release date N/A, held in the main jail.
BlockInCustody ==
    <<Lbl("Booking Number:"), Sp, Num(55521), NL,
      Lbl("Booking Date/Time:"), Sp, D4(0), Sp, HM(600), NL,
      Lbl("Release Date:"), Sp, W("N/A"), NL,
      Lbl("Cell Location:"), Sp, W("Main Jail"), NL,
      Lbl("Charges:"), NL, W("Burglary")>>

\* Scenario 2: booked 01/01/2024 10:00 (day 0), released 01/10/2024 08:00.
BlockReleased ==
    <<Lbl("Booking Number:"), Sp, Num(55521), NL,
      Lbl("Booking Date/Time:"), Sp, D4(0), Sp, HM(600), NL,
      Lbl("Release Date:"), Sp, D4(9), Sp, HM(480), NL,
      Lbl("Cell Location:"), Sp, W("Main Jail"), NL,
      Lbl("Charges:"), NL, W("Burglary")>>

\* The entries a search of the portal may return.
PortalBlocks == {BlockInCustody, BlockReleased}

RECURSIVE SeqsUpTo(_, _)
SeqsUpTo(S, n) ==
    IF n = 0 THEN {<<>>}
    ELSE SeqsUpTo(S, n - 1)
           \cup {Append(q, x) : q \in {r \in SeqsUpTo(S, n - 1) : Len(r) = n - 1}, x \in S}

Batches == SeqsUpTo(PortalBlocks, MaxBatch)

\* The dict without some keys, and with one key set.
Without(record, keys) == [k \in DOMAIN record \ keys |-> record[k]]
WithField(record, key, value) ==
    [k \in DOMAIN record \cup {key} |-> IF k = key THEN value ELSE record[k]]

\* A dict of a Search Task with every field.
FillerRecord == structured_data(1, BlockInCustody, MaxDay * MinutesPerDay)

\* --------------------------------------------------------------------- state
Workers == 1..NumTasks
\* A name "Last, First" is a number: its rank among the names in sorted order.
NameIds == 1..NumTasks

VARIABLES
    now,                \* datetime.now(), in minutes
    probe,              \* the last call of a pure function: arguments and result
    names_list,         \* PBSOParallelScraper.names_list (worker w searches names_list[w])
    max_workers,        \* PBSOParallelScraper.max_workers
    run_pc,             \* where PBSOParallelScraper.run is
    accumulated_results,\* the text run() compiled and sent with search_complete
    records_found,      \* len(all_booking_data) as run() reports it after publishing
    worker_pc,          \* where each ScraperWorker.run is
    failed_in,          \* the step a worker's exception came from ("" if none)
    booking_data,       \* each ScraperWorker.booking_data
    sent,               \* the result_ready triples each worker emitted, in order
    gui_queue,          \* events posted to the GUI thread, which owns the scraper and the window
    gui_pc,             \* where the GUI thread's current handler is
    gui_event,          \* the event the GUI thread is handling
    result_mutex,       \* "free" or "held"
    results,            \* PBSOParallelScraper.results: name -> result text
    all_booking_data,   \* PBSOParallelScraper.all_booking_data
    completed_count,    \* PBSOParallelScraper.completed_count
    progress_label,     \* the (completed, total) last shown by update_progress
    window_booking_data,\* PBSOBookingBlotter.booking_data: "own" list or the "scraper" list
    export_enabled,     \* the export buttons
    results_list,       \* the summary list of the window
    session             \* the window over several searches: its buttons, its scrapers, its data

norm_vars == <<now, probe>>
scraper_vars == <<names_list, max_workers, run_pc, accumulated_results, records_found>>
worker_vars == <<worker_pc, failed_in, booking_data, sent>>
merge_vars == <<result_mutex, results, all_booking_data, completed_count>>
gui_vars == <<gui_pc, gui_event, progress_label, window_booking_data,
              export_enabled, results_list>>
vars == <<norm_vars, scraper_vars, worker_vars, merge_vars, gui_vars, gui_queue, session>>

total_count == Len(names_list)

NoProbe == [fn |-> "none", release |-> <<>>, location |-> <<>>, block |-> <<>>,
            at |-> 0, status |-> "", record |-> <<>>]
NoEvent == [sig |-> "none", name |-> 0, result |-> <<>>, data |-> <<>>]

\* The window as __init__ leaves it: the search button runs run_search, no
\* names entered, no scraper created, booking_data its own empty list (0; k is
\* the list of the k-th scraper), the export buttons disabled.
WindowConstructed ==
    [search_button |-> "run_search",
     search_button_text |-> "Start Parallel Search",
     input_names |-> 0,
     scrapers |-> <<>>,
     booking_data |-> 0,
     export_enabled |-> FALSE,
     results_list |-> [kind |-> "empty", of |-> 0],
     events |-> <<>>]

\* The names lists of a run, up to renaming: names in sorted order, the same
\* name possibly entered more than once.
NamesLists ==
    {f \in [Workers -> NameIds] :
        /\ f[1] = 1
        /\ \A w \in Workers : w > 1 => f[w] \in {f[w - 1], f[w - 1] + 1}}

\* The state when run_search has constructed and started the scraper of the
\* window's first search.
ScraperStarted ==
    /\ run_pc = "start_workers"
    /\ accumulated_results = <<>>
    /\ records_found = 0
    /\ worker_pc = [w \in Workers |-> "created"]
    /\ failed_in = [w \in Workers |-> ""]
    /\ booking_data = [w \in Workers |-> <<>>]
    /\ sent = [w \in Workers |-> <<>>]
    /\ gui_queue = <<>>
    /\ gui_pc = "idle"
    /\ gui_event = NoEvent
    /\ result_mutex = "free"
    /\ results = [n \in {} |-> <<>>]
    /\ all_booking_data = <<>>
    /\ completed_count = 0
    /\ progress_label = <<0, total_count>>
    /\ window_booking_data = "own"
    /\ export_enabled = FALSE
    /\ results_list = [kind |-> "searching", records |-> <<>>]

Init ==
    /\ now = MaxDay * MinutesPerDay
    /\ probe = NoProbe
    /\ names_list \in NamesLists
    /\ max_workers \in 1..MaxWorkers
    /\ ScraperStarted
    /\ session = WindowConstructed

\* ------------------------------------------------------------- Search Task
\* The result texts of a Search Task.
ResultText(kind, name, blocks) == [kind |-> kind, name |-> name, blocks |-> blocks]

Triple(name, result, data) == [name |-> name, result |-> result, data |-> data]

\* The except handler sending the records collected so far with the diagnostic.
except_triple_keeps_records(w) ==
    Triple(names_list[w], ResultText("error", names_list[w], <<>>), booking_data[w])

\* The triple the handler of `except Exception` emits.
except_triple(w) ==
    Triple(names_list[w], ResultText("error", names_list[w], <<>>), <<>>)

\* The triple of the start-date handler.
start_date_triple(w) ==
    Triple(names_list[w], ResultText("start_date_error", names_list[w], <<>>), <<>>)

\* self.booking_data after the loop over the entries of a batch.
normalized(w, batch) ==
    [i \in 1..Len(batch) |-> structured_data(names_list[w], batch[i], now)]

\* The triple run() emits for the entries it collected.
result_triple(w, batch) ==
    IF batch = <<>>
      THEN Triple(names_list[w], ResultText("no_results", names_list[w], <<>>), <<>>)
      ELSE Triple(names_list[w], ResultText("results", names_list[w], batch),
                  normalized(w, batch))

\* result_ready.emit from a worker thread: the slot belongs to the scraper
\* object, which lives in the GUI thread, so the call is posted to that
\* thread's event queue.
emit_result(w, triple) ==
    /\ sent' = [sent EXCEPT ![w] = Append(@, triple)]
    /\ gui_queue' = Append(gui_queue,
           [sig |-> "result_ready", name |-> triple.name,
            result |-> triple.result, data |-> triple.data])

Finished(w) == worker_pc[w] \in {"Done", "Failed"}

StepAfter(pc) ==
    CASE pc = "setup" -> "navigate"
      [] pc = "navigate" -> "login"
      [] pc = "login" -> "query"
      [] pc = "query" -> "collect"

\* A step of run() that succeeds and emits nothing: driver start, navigation,
\* login, query.
WorkerStep(w) ==
    /\ worker_pc[w] \in {"setup", "navigate", "login", "query"}
    /\ worker_pc' = [worker_pc EXCEPT ![w] = StepAfter(@)]
    /\ UNCHANGED <<session, norm_vars, scraper_vars, merge_vars, gui_vars, gui_queue,
                   failed_in, booking_data, sent>>

\* Setting the start date fails: its own handler sends the diagnostic and goes
\* on to close the browser.
WorkerStartDateError(w) ==
    /\ worker_pc[w] = "query"
    /\ emit_result(w, start_date_triple(w))
    /\ worker_pc' = [worker_pc EXCEPT ![w] = "quit_error"]
    /\ failed_in' = [failed_in EXCEPT ![w] = "start_date"]
    /\ UNCHANGED <<session, norm_vars, scraper_vars, merge_vars, gui_vars, booking_data>>

\* The entries are collected and normalized and the result is emitted.
WorkerCollect(w) ==
    /\ worker_pc[w] = "collect"
    /\ \E batch \in Batches :
         /\ booking_data' = [booking_data EXCEPT ![w] = normalized(w, batch)]
         /\ emit_result(w, result_triple(w, batch))
    /\ worker_pc' = [worker_pc EXCEPT ![w] = "quit"]
    /\ UNCHANGED <<session, norm_vars, scraper_vars, merge_vars, gui_vars, failed_in>>

\* driver.quit() returns.
WorkerQuit(w) ==
    /\ worker_pc[w] \in {"quit", "quit_error"}
    /\ worker_pc' = [worker_pc EXCEPT ![w] = IF @ = "quit" THEN "Done" ELSE "Failed"]
    /\ UNCHANGED <<session, norm_vars, scraper_vars, merge_vars, gui_vars, gui_queue,
                   failed_in, booking_data, sent>>

\* self.booking_data when the loop over the entries is left by an exception:
\* the records of the entries done before it.
Partials(w) ==
    UNION {{SubSeq(normalized(w, batch), 1, k) : k \in 0..(Len(batch) - 1)} :
              batch \in Batches \ {<<>>}} \cup {<<>>}

\* A step raises: the outer handler sends the diagnostic, and the thread ends.
WorkerRaise(w) ==
    /\ worker_pc[w] \in {"setup", "navigate", "login", "query", "collect",
                         "quit", "quit_error"}
    /\ emit_result(w, except_triple(w))
    /\ failed_in' = [failed_in EXCEPT ![w] = worker_pc[w]]
    /\ worker_pc' = [worker_pc EXCEPT ![w] = "Failed"]
    /\ IF worker_pc[w] = "collect"
         THEN \E part \in Partials(w) :
                booking_data' = [booking_data EXCEPT ![w] = part]
         ELSE UNCHANGED booking_data
    /\ UNCHANGED <<session, norm_vars, scraper_vars, merge_vars, gui_vars>>

\* --------------------------------------------------------------- Aggregator
\* worker.start() of the loop over the workers, in the order of names_list.
\* The ThreadPoolExecutor run() creates is given no task: every worker is a
\* thread of its own and is started here.
RunStartWorker(w) ==
    /\ run_pc = "start_workers"
    /\ worker_pc[w] = "created"
    /\ \A v \in Workers : v < w => worker_pc[v] # "created"
    /\ worker_pc' = [worker_pc EXCEPT ![w] = "setup"]
    /\ run_pc' = IF w = NumTasks THEN "wait" ELSE run_pc
    /\ UNCHANGED <<session, norm_vars, names_list, max_workers, accumulated_results,
                   records_found, failed_in, booking_data, sent, merge_vars,
                   gui_vars, gui_queue>>

\* sorted(self.results.keys())
RECURSIVE SortedKeys(_)
SortedKeys(keys) ==
    IF keys = {} THEN <<>>
    ELSE <<MinOf(keys)>> \o SortedKeys(keys \ {MinOf(keys)})

\* The text blocks of results in name order (each followed by a rule line).
compile_results(res) ==
    [i \in 1..Cardinality(DOMAIN res) |-> res[SortedKeys(DOMAIN res)[i]]]

\* Every worker.wait() has returned; the results are compiled and sent with
\* search_complete.
RunPublishText ==
    /\ run_pc = "wait"
    /\ \A w \in Workers : Finished(w)
    /\ accumulated_results' = compile_results(results)
    /\ gui_queue' = Append(gui_queue,
           [sig |-> "search_complete", name |-> 0,
            result |-> compile_results(results), data |-> <<>>])
    /\ run_pc' = "emit_data"
    /\ UNCHANGED <<session, norm_vars, names_list, max_workers, records_found,
                   worker_vars, merge_vars, gui_vars>>

\* data_ready carries the list all_booking_data itself; the closing status
\* line reports its length.
RunPublishData ==
    /\ run_pc = "emit_data"
    /\ gui_queue' = Append(gui_queue,
           [sig |-> "data_ready", name |-> 0, result |-> <<>>, data |-> <<>>])
    /\ records_found' = Len(all_booking_data)
    /\ run_pc' = "done"
    /\ UNCHANGED <<session, norm_vars, names_list, max_workers, accumulated_results,
                   worker_vars, merge_vars, gui_vars>>

\* record["Name"] = name where the record has no Name.
backfill_name(record, name) ==
    IF "Name" \in DOMAIN record THEN record ELSE record @@ ("Name" :> name)

\* The repair that fills in the booking number only.
repair_record_number_only(record, i) ==
    IF "Booking Number" \in DOMAIN record THEN record
    ELSE record @@ ("Booking Number" :> <<W("Unknown-"), Num(i)>>)

\* The repair that infers the status of every record, not only of those
\* without one.
repair_record_always_infers(record, i) ==
    LET number == IF "Booking Number" \in DOMAIN record THEN record
                  ELSE record @@ ("Booking Number" :> <<W("Unknown-"), Num(i)>>)
    IN [k \in DOMAIN number \cup {"Status"} |->
          IF k = "Status"
            THEN IF /\ "Release Date" \in DOMAIN record
                    /\ record["Release Date"] # <<>>
                    /\ record["Release Date"] # <<W("N/A")>>
                   THEN "Released" ELSE "In Custody"
            ELSE number[k]]

\* The repair of a record's required fields; i is its index in the batch,
\* from 0.
repair_record(record, i) ==
    LET number == IF "Booking Number" \in DOMAIN record THEN record
                  ELSE record @@ ("Booking Number" :> <<W("Unknown-"), Num(i)>>)
    IN IF "Status" \in DOMAIN number THEN number
       ELSE number @@ ("Status" :>
              IF /\ "Release Date" \in DOMAIN record
                 /\ record["Release Date"] # <<>>
                 /\ record["Release Date"] # <<W("N/A")>>
                THEN "Released" ELSE "In Custody")

\* valid_records of handle_result.
valid_records(name, data) ==
    [i \in 1..Len(data) |-> repair_record(backfill_name(data[i], name), i - 1)]

\* handle_result is entered: the mutex is taken and the result text stored.
handle_result_lock ==
    /\ gui_pc = "idle"
    /\ gui_queue # <<>>
    /\ Head(gui_queue).sig = "result_ready"
    /\ result_mutex = "free"
    /\ result_mutex' = "held"
    /\ gui_event' = Head(gui_queue)
    /\ gui_queue' = Tail(gui_queue)
    /\ results' = [n \in DOMAIN results \cup {Head(gui_queue).name} |->
                     IF n = Head(gui_queue).name THEN Head(gui_queue).result
                     ELSE results[n]]
    /\ gui_pc' = "merge"
    /\ UNCHANGED <<session, norm_vars, scraper_vars, worker_vars, all_booking_data,
                   completed_count, progress_label, window_booking_data,
                   export_enabled, results_list>>

\* The merge that assigns the delivery's records to the Dataset in place of
\* extending it.
handle_result_merge_replaces ==
    /\ gui_pc = "merge"
    /\ all_booking_data' = valid_records(gui_event.name, gui_event.data)
    /\ completed_count' = completed_count + 1
    /\ gui_pc' = "unlock"
    /\ UNCHANGED <<session, norm_vars, scraper_vars, worker_vars, gui_queue, result_mutex,
                   results, gui_event, progress_label,
                   window_booking_data, export_enabled, results_list>>

\* The body of the try block after the result text is stored: the records are
\* validated, repaired and added to the Dataset, and the completed count is
\* incremented.
handle_result_merge ==
    /\ gui_pc = "merge"
    /\ all_booking_data' = all_booking_data \o valid_records(gui_event.name, gui_event.data)
    /\ completed_count' = completed_count + 1
    /\ gui_pc' = "unlock"
    /\ UNCHANGED <<session, norm_vars, scraper_vars, worker_vars, gui_queue, result_mutex,
                   results, gui_event, progress_label,
                   window_booking_data, export_enabled, results_list>>

\* The except branch leaving handle_result at once, the mutex not released.
handle_result_except_keeps_lock ==
    /\ gui_pc = "merge"
    /\ gui_event.data # <<>>
    /\ gui_pc' = "progress"
    /\ UNCHANGED <<session, norm_vars, scraper_vars, worker_vars, gui_queue, merge_vars,
                   gui_event, progress_label, window_booking_data,
                   export_enabled, results_list>>

\* A statement of the loops over the records raises: the except branch logs
\* the error and the rest of the try block is skipped.
handle_result_except ==
    /\ gui_pc = "merge"
    /\ gui_event.data # <<>>
    /\ gui_pc' = "unlock"
    /\ UNCHANGED <<session, norm_vars, scraper_vars, worker_vars, gui_queue, merge_vars,
                   gui_event, progress_label, window_booking_data,
                   export_enabled, results_list>>

\* finally: the mutex is released.
handle_result_unlock ==
    /\ gui_pc = "unlock"
    /\ result_mutex' = "free"
    /\ gui_pc' = "progress"
    /\ UNCHANGED <<session, norm_vars, scraper_vars, worker_vars, gui_queue, results,
                   all_booking_data, completed_count, gui_event, progress_label,
                   window_booking_data, export_enabled, results_list>>

\* progress_update is emitted and update_progress shows it.
handle_result_progress ==
    /\ gui_pc = "progress"
    /\ progress_label' = <<completed_count, total_count>>
    /\ gui_pc' = "idle"
    /\ gui_event' = NoEvent
    /\ UNCHANGED <<session, norm_vars, scraper_vars, worker_vars, gui_queue, merge_vars,
                   window_booking_data, export_enabled, results_list>>

\* ------------------------------------------------------------------ window
\* The list self.booking_data of the window refers to.
WindowData == IF window_booking_data = "scraper" THEN all_booking_data ELSE <<>>

\* The entries grouped by name, the names in sorted order.
RECURSIVE group_by_name(_, _)
group_by_name(data, names) ==
    IF names = {} THEN <<>>
    ELSE SelectSeq(data, LAMBDA r : r["Name"] = MinOf(names))
           \o group_by_name(data, names \ {MinOf(names)})

display_results ==
    /\ gui_pc = "idle"
    /\ gui_queue # <<>>
    /\ Head(gui_queue).sig = "search_complete"
    /\ gui_queue' = Tail(gui_queue)
    /\ results_list' =
         IF WindowData = <<>>
           THEN [kind |-> "no_results", records |-> <<>>]
           ELSE [kind |-> "summary",
                 records |-> group_by_name(WindowData,
                                {WindowData[i]["Name"] : i \in 1..Len(WindowData)})]
    /\ export_enabled' = (export_enabled \/ WindowData # <<>>)
    /\ UNCHANGED <<session, norm_vars, scraper_vars, worker_vars, merge_vars, gui_pc,
                   gui_event, progress_label, window_booking_data>>

handle_data_ready ==
    /\ gui_pc = "idle"
    /\ gui_queue # <<>>
    /\ Head(gui_queue).sig = "data_ready"
    /\ gui_queue' = Tail(gui_queue)
    /\ window_booking_data' = "scraper"
    /\ export_enabled' = (export_enabled \/ all_booking_data # <<>>)
    /\ UNCHANGED <<session, norm_vars, scraper_vars, worker_vars, merge_vars, gui_pc,
                   gui_event, progress_label, results_list>>

\* ------------------------------------------------------------ specification
WorkerNext ==
    \E w \in Workers :
       \/ WorkerStep(w)
       \/ WorkerStartDateError(w)
       \/ WorkerCollect(w)
       \/ WorkerQuit(w)
       \/ WorkerRaise(w)

RunNext ==
    \/ \E w \in Workers : RunStartWorker(w)
    \/ RunPublishText
    \/ RunPublishData

GuiNext ==
    \/ handle_result_lock
    \/ handle_result_merge
    \/ handle_result_except
    \/ handle_result_unlock
    \/ handle_result_progress
    \/ display_results
    \/ handle_data_ready

Next == WorkerNext \/ RunNext \/ GuiNext

Spec == Init /\ [][Next]_vars

\* The threads are scheduled by the operating system and the GUI thread runs
\* its event loop: none of them is held back forever.
FairSpec == Spec /\ WF_vars(WorkerNext) /\ WF_vars(RunNext) /\ WF_vars(GuiNext)

\* ------------------------------------------- the pure functions on their own
\* The days and minutes of the day the sample dates and the clock are drawn
\* from: day 0 is 01/01/2024, day 9 is 01/10/2024.
SampleDays == {0, 1, 9, MaxDay}
SampleMinutes == {0, 480, 600}
Instants == {d * MinutesPerDay + m : d \in {1, 9, MaxDay - 1}, m \in SampleMinutes}

DateTexts ==
    {<<D4(d), Sp, HM(m)>> : d \in SampleDays, m \in {480, 600}}
      \cup {<<D4(d)>> : d \in SampleDays}

\* Release-date texts as the portal shows them.
ReleaseTexts ==
    DateTexts
      \cup {<<D2(9)>>, <<D4(9), Sp, HMS(480)>>,
            <<D4(9), Sp, W("Time:"), Sp, HM(480)>>,
            <<D4(MaxDay), Sp, W("TIME:"), Sp, HM(480)>>,
            <<D4(1), Sp, HM(480), Sp, W("Pending")>>,
            <<W("N/A")>>, <<W("n/a")>>, <<W("Unknown")>>, <<W("Still in custody")>>,
            <<W("Pending")>>, <<W("N/A"), Sp, W("Time:"), Sp, HM(0)>>}

\* Arguments of determine_status: the texts above, also empty or padded.
ReleaseArgs == ReleaseTexts \cup {<<>>, <<Sp, D4(1), Sp>>, <<Sp, W("N/A")>>}

LocationArgs ==
    {<<>>, <<W("Main Jail")>>, <<W("MAIN JAIL")>>, <<W("main jail")>>,
     <<W("West Detention Center")>>, <<Sp, W("Surety Bond")>>,
     <<W("Not specified")>>, <<W("Released")>>}

BookingLines ==
    {<<Lbl("Booking Date/Time:"), Sp>> \o date_time :
        date_time \in {<<D4(d), Sp, HM(m)>> : d \in {0, 9, MaxDay}, m \in {600}}
                        \cup {<<D4(0), Sp, HMS(600)>>, <<D4(0)>>, <<W("Pending")>>}}

ReleaseLines == {<<Lbl("Release Date:"), Sp>> \o release : release \in ReleaseTexts}

CellLines == {<<Lbl("Cell Location:"), Sp, W("Main Jail")>>}

\* A line of the set, or no such line.
Optional(lines) == {<<line, NL>> : line \in lines} \cup {<<>>}

Flatten(pair) == IF pair = <<>> THEN <<>> ELSE pair[1] \o <<pair[2]>>

\* The text of one booking entry: the lines it has, a name line last.
EntryBlocks ==
    {Flatten(b) \o Flatten(r) \o Flatten(c) \o <<W("DOE, JOHN")>> :
        b \in Optional(BookingLines), r \in Optional(ReleaseLines),
        c \in Optional(CellLines)}

NormInit ==
    /\ now \in Instants
    /\ probe = NoProbe
    /\ names_list = [w \in Workers |-> 1]
    /\ max_workers = 1
    /\ ScraperStarted
    /\ session = WindowConstructed

call_determine_status ==
    /\ probe = NoProbe
    /\ \E release \in ReleaseArgs, location \in LocationArgs :
         probe' = [fn |-> "determine_status", release |-> release,
                   location |-> location, block |-> <<>>, at |-> now,
                   status |-> determine_status(release, location, now),
                   record |-> <<>>]
    /\ UNCHANGED <<session, now, scraper_vars, worker_vars, merge_vars, gui_vars, gui_queue>>

call_structured_data ==
    /\ probe = NoProbe
    /\ \E text \in EntryBlocks :
         probe' = [fn |-> "structured_data", release |-> <<>>,
                   location |-> <<>>, block |-> text, at |-> now,
                   status |-> "",
                   record |-> structured_data(names_list[1], text, now)]
    /\ UNCHANGED <<session, now, scraper_vars, worker_vars, merge_vars, gui_vars, gui_queue>>

\* ------------------------------------------------- run_search on its own
\* The ranges of the two delay spin boxes.
MinDelays == 1..10
MaxDelays == 2..15

\* The check of run_search with < in place of <=.
checked_max_delay_strict(min_delay, max_delay) ==
    IF max_delay < min_delay THEN min_delay + 1 ELSE max_delay

\* max_delay after the check of run_search.
checked_max_delay(min_delay, max_delay) ==
    IF max_delay <= min_delay THEN min_delay + 1 ELSE max_delay

\* run_search reads the spin boxes and constructs the scraper, which hands
\* its delay bounds to every ScraperWorker it creates.
call_run_search ==
    /\ probe = NoProbe
    /\ \E min_spin \in MinDelays, max_spin \in MaxDelays :
         probe' = [fn |-> "run_search", min_spin |-> min_spin, max_spin |-> max_spin,
                   min_delay |-> min_spin,
                   max_delay |-> checked_max_delay(min_spin, max_spin)]
    /\ UNCHANGED <<session, now, scraper_vars, worker_vars, merge_vars, gui_vars, gui_queue>>

\* ---------------------------------------------- export_to_csv on its own
\* The keys of the records in play, as sorted() orders them.
AlphabeticalKeys ==
    <<"Age", "Booking Date", "Booking Number", "Cell Location", "Charges",
      "Facility", "Name", "Raw Data", "Release Date", "Status",
      "Time Served (Days)">>

\* sorted(keys)
sorted_fields(keys) == SelectSeq(AlphabeticalKeys, LAMBDA k : k \in keys)

\* The keys of all the records of the list.
all_fieldnames(data) == UNION {DOMAIN data[i] : i \in 1..Len(data)}

\* The columns the table of the data view starts with.
ordered_columns ==
    <<"Name", "Status", "Booking Number", "Booking Date", "Release Date",
      "Time Served (Days)", "Cell Location", "Charges">>

InSeq(x, list) == \E i \in 1..Len(list) : list[i] = x

\* The columns of the data view's table.
refresh_view_columns(data) ==
    ordered_columns
       \o SelectSeq(sorted_fields(all_fieldnames(data)),
                    LAMBDA col : ~InSeq(col, ordered_columns) /\ col # "Raw Data")

\* The header of the CSV file with the columns in the order of the data view.
csv_fieldnames_as_view(data) ==
    SelectSeq(ordered_columns, LAMBDA col : col \in all_fieldnames(data))
       \o SelectSeq(sorted_fields(all_fieldnames(data)),
                    LAMBDA col : ~InSeq(col, ordered_columns) /\ col # "Raw Data")

\* The header of the CSV file.
csv_fieldnames(data) ==
    SelectSeq(sorted_fields(all_fieldnames(data)), LAMBDA col : col # "Raw Data")

\* The records of an export: those of a Search Task, with keys more or less.
ExportRecords ==
    UNION {{r,
            WithField(r, "Age", <<Num(30)>>),
            WithField(WithField(r, "Facility", <<W("Main Jail")>>), "Age", <<Num(30)>>),
            Without(r, {"Charges", "Status"}),
            Without(r, {"Raw Data", "Name"})} : r \in {FillerRecord}}

ExportLists ==
    {<<r>> : r \in ExportRecords} \cup {<<r, q>> : r \in ExportRecords, q \in ExportRecords}

call_export_to_csv ==
    /\ probe = NoProbe
    /\ \E data \in ExportLists :
         probe' = [fn |-> "export_to_csv", data |-> data,
                   fieldnames |-> csv_fieldnames(data),
                   table_columns |-> refresh_view_columns(data)]
    /\ UNCHANGED <<session, now, scraper_vars, worker_vars, merge_vars, gui_vars, gui_queue>>

\* ---------------------------------------------- extract_value on its own
\* The Cell Location line of an entry: none, with a value, empty, blank.
CellLocationLines ==
    {<<>>, <<Lbl("Cell Location:"), Sp, W("Main Jail")>>,
     <<Lbl("Cell Location:")>>, <<Lbl("Cell Location:"), Sp>>}

\* The Facility line of an entry: none, with a value, empty, "NO FILE".
FacilityLines ==
    {<<>>, <<Lbl("Facility:"), Sp, W("West Detention Center")>>,
     <<Lbl("Facility:")>>, <<Lbl("Facility:"), Sp, W("NO FILE")>>,
     <<Lbl("Facility:"), Sp, W("No File")>>}

\* The lines joined by "\n", the empty ones left out.
RECURSIVE JoinLines(_)
JoinLines(lines) ==
    IF lines = <<>> THEN <<>>
    ELSE IF Head(lines) = <<>> THEN JoinLines(Tail(lines))
    ELSE IF JoinLines(Tail(lines)) = <<>> THEN Head(lines)
    ELSE Head(lines) \o <<NL>> \o JoinLines(Tail(lines))

\* Entries with the facility before or after the cell location.
LocationBlocks ==
    UNION {{JoinLines(<<<<Lbl("Booking Number:"), Sp, Num(55521)>>, facility, cell>>),
            JoinLines(<<<<Lbl("Booking Number:"), Sp, Num(55521)>>, cell, facility>>)} :
             cell \in CellLocationLines, facility \in FacilityLines}

call_extract_value ==
    /\ probe = NoProbe
    /\ \E text \in LocationBlocks :
         probe' = [fn |-> "extract_value", block |-> text, label |-> "Cell Location:",
                   value |-> extract_value(text, "Cell Location:")]
    /\ UNCHANGED <<session, now, scraper_vars, worker_vars, merge_vars, gui_vars, gui_queue>>

\* ------------------------------------------- the names of run_search alone
\* "," in a line of the names box.
Comma == [k |-> "comma", s |-> ",", n |-> 0]

\* line.split(",")
RECURSIVE SplitCommas(_)
SplitCommas(line) ==
    LET commas == {i \in 1..Len(line) : line[i] = Comma}
    IN IF commas = {} THEN <<line>>
       ELSE <<SubSeq(line, 1, MinOf(commas) - 1)>>
              \o SplitCommas(SubSeq(line, MinOf(commas) + 1, Len(line)))

\* The loop over the lines: the (last, first) pairs, or raised when
\* part.strip().split()[0] finds no token (IndexError).
RECURSIVE parse_names(_)
parse_names(lines) ==
    IF lines = <<>> THEN [raised |-> FALSE, names_list |-> <<>>]
    ELSE LET parts == SplitCommas(Head(lines))
         IN IF Len(parts) < 2 THEN parse_names(Tail(lines))
            ELSE IF Solid(parts[1]) = <<>> \/ Solid(parts[2]) = <<>>
              THEN [raised |-> TRUE, names_list |-> <<>>]
            ELSE IF parse_names(Tail(lines)).raised THEN parse_names(Tail(lines))
            ELSE [raised |-> FALSE,
                  names_list |-> <<<<Solid(parts[1])[1], Solid(parts[2])[1]>>>>
                                    \o parse_names(Tail(lines)).names_list]

\* Lines typed into the names box.
NameLines ==
    {<<W("Doe"), Comma, Sp, W("John")>>,
     <<W("Van"), Sp, W("Doe"), Comma, Sp, W("John"), Sp, W("Paul")>>,
     <<W("Doe"), Comma, W("John"), Comma, Sp, W("Jr")>>,
     <<W("Doe"), Sp, W("John")>>,
     <<Comma, Sp, W("John")>>,
     <<W("Doe"), Comma>>,
     <<Sp, Comma, Sp>>}

NameTexts == {<<a>> : a \in NameLines} \cup {<<a, b>> : a \in NameLines, b \in NameLines}

\* run_search up to the point where it starts the search or returns.
call_parse_names ==
    /\ probe = NoProbe
    /\ \E lines \in NameTexts :
         probe' = [fn |-> "parse_names", lines |-> lines,
                   raised |-> parse_names(lines).raised,
                   names_list |-> parse_names(lines).names_list,
                   started |-> ~parse_names(lines).raised
                                 /\ parse_names(lines).names_list # <<>>]
    /\ UNCHANGED <<session, now, scraper_vars, worker_vars, merge_vars, gui_vars, gui_queue>>

\* ------------------------------------- export_filtered_data on its own
\* An entry without a booking number, released 01/10/2024 08:00.
BlockNoNumberReleased ==
    <<Lbl("Booking Date/Time:"), Sp, D4(0), Sp, HM(600), NL,
      Lbl("Release Date:"), Sp, D4(9), Sp, HM(480), NL,
      Lbl("Cell Location:"), Sp, W("Main Jail")>>

\* An entry without a booking number, still held.
BlockNoNumberHeld ==
    <<Lbl("Booking Date/Time:"), Sp, D4(0), Sp, HM(600), NL,
      Lbl("Release Date:"), Sp, W("N/A"), NL,
      Lbl("Cell Location:"), Sp, W("Main Jail")>>

\* The window's booking_data when the filtered view is exported: one or two
\* records of the Search Tasks.
ViewRecords ==
    {structured_data(name, block, MaxDay * MinutesPerDay) :
        name \in NameIds,
        block \in {BlockInCustody, BlockNoNumberHeld, BlockNoNumberReleased}}

ViewLists ==
    {<<r>> : r \in ViewRecords} \cup {<<r, q>> : r \in ViewRecords, q \in ViewRecords}

\* The radio buttons of the view: all records, in custody only, released only.
StatusFilters == {"", "In Custody", "Released"}

\* The text of a cell: str(record.get(column, "")).
cell_text(record, column) ==
    IF column \in DOMAIN record THEN record[column] ELSE <<>>

\* Text or name that Python takes as true: not the empty string.
Truthy(text) == text # <<>> /\ text # None

\* apply_filter: row i shows data[i]; the rows hidden by the status filter.
apply_filter(data, status_filter) ==
    {row \in 1..Len(data) :
        status_filter # "" /\ cell_text(data[row], "Status") # status_filter}

\* The record the inner loop of export_filtered_data appends for a row: the
\* first one of total_data whose Booking Number and Name equal the row's
\* texts, none (<<>>) if no record does.
matched_records(total_data, booking_num, name) ==
    LET hits == {i \in 1..Len(total_data) :
                    /\ Truthy(booking_num)
                    /\ cell_text(total_data[i], "Booking Number") = booking_num
                    /\ cell_text(total_data[i], "Name") = name}
    IN IF hits = {} THEN <<>>
       ELSE <<total_data[CHOOSE i \in hits : \A j \in hits : i <= j]>>

RECURSIVE visible_records(_, _, _)
visible_records(total_data, hidden, row) ==
    IF row > Len(total_data) THEN <<>>
    ELSE (IF row \in hidden THEN <<>>
          ELSE matched_records(total_data,
                               cell_text(total_data[row], "Booking Number"),
                               cell_text(total_data[row], "Name")))
           \o visible_records(total_data, hidden, row + 1)

call_export_filtered_data ==
    /\ probe = NoProbe
    /\ \E data \in ViewLists, status_filter \in StatusFilters :
         LET hidden == apply_filter(data, status_filter)
         IN probe' = [fn |-> "export_filtered_data", data |-> data,
                      hidden |-> hidden,
                      visible_records |-> visible_records(data, hidden, 1)]
    /\ UNCHANGED <<session, now, scraper_vars, worker_vars, merge_vars, gui_vars, gui_queue>>

NormNext ==
    \/ call_determine_status
    \/ call_structured_data
    \/ call_run_search
    \/ call_export_to_csv
    \/ call_extract_value
    \/ call_parse_names
    \/ call_export_filtered_data

NormSpec == NormInit /\ [][NormNext]_vars

\* ------------------------------------------------- handle_result on its own
\* The deliveries handle_result is given in a row.
MaxDeliveries == 2
\* The largest index of a record in its batch.
MaxIndex == 3

\* An entry without a "Booking Number:" line.
BlockNoNumber ==
    <<Lbl("Booking Date/Time:"), Sp, D4(0), Sp, HM(600), NL,
      Lbl("Release Date:"), Sp, W("N/A"), NL,
      Lbl("Cell Location:"), Sp, W("Main Jail")>>

\* An entry whose release date is not a date and whose location says nothing.
BlockPending ==
    <<Lbl("Booking Number:"), Sp, Num(55521), NL,
      Lbl("Booking Date/Time:"), Sp, D4(0), Sp, HM(600), NL,
      Lbl("Release Date:"), Sp, W("Pending"), NL,
      Lbl("Cell Location:"), Sp, W("Not specified")>>

MergeBlocks == {BlockInCustody, BlockReleased, BlockNoNumber, BlockPending}

\* The Release Date of a record handle_result is given: as the Search Task
\* set it, absent, or one of the texts that stand for no date.
ReleaseVariants(record) ==
    {record, Without(record, {"Release Date"}),
     WithField(record, "Release Date", <<W("N/A")>>),
     WithField(record, "Release Date", <<>>)}

\* The dicts handle_result is given: those of a Search Task, and the same
\* with required fields absent.
MergeRecords ==
    UNION {ReleaseVariants(Without(structured_data(1, block, MaxDay * MinutesPerDay), keys)) :
             block \in MergeBlocks, keys \in SUBSET {"Booking Number", "Status"}}

\* booking_data of one delivery: a dict at each index up to MaxIndex.
MergeBatches ==
    {[i \in 1..(k + 1) |-> IF i = k + 1 THEN record ELSE FillerRecord] :
        k \in 0..MaxIndex, record \in MergeRecords}

\* booking_data of the deliveries after the first.
FollowUpBatches == {<<>>, <<Without(FillerRecord, {"Booking Number", "Status"})>>}

\* A Search Task's result_ready reaches the scraper.
MergeDeliver ==
    /\ gui_pc = "idle"
    /\ gui_queue = <<>>
    /\ Len(sent[1]) < MaxDeliveries
    /\ \E data \in (IF sent[1] = <<>> THEN MergeBatches ELSE FollowUpBatches) :
          emit_result(1, Triple(names_list[1],
                                ResultText("results", names_list[1], <<>>), data))
    /\ UNCHANGED <<session, norm_vars, scraper_vars, worker_pc, failed_in, booking_data,
                   merge_vars, gui_vars>>

MergeNext ==
    \/ MergeDeliver
    \/ handle_result_lock
    \/ handle_result_merge
    \/ handle_result_except
    \/ handle_result_unlock
    \/ handle_result_progress

\* The scraper of a search for one name, no Search Task started yet.
MergeInit ==
    /\ now = MaxDay * MinutesPerDay
    /\ probe = NoProbe
    /\ names_list = [w \in Workers |-> 1]
    /\ max_workers = 1
    /\ ScraperStarted
    /\ session = WindowConstructed

MergeSpec == MergeInit /\ [][MergeNext]_vars

\* ------------------------------------------- the window over several searches
\* Each scraper is a record [pc, found]: "running" until its run() has
\* published, and the number of records in its all_booking_data.  The
\* signals of every scraper are queued to the one GUI thread in the order
\* they were emitted (session.events).

\* The user edits the names box: no line, one name, or more names than
\* run_search accepts without a confirmation.
NameCounts == {0, 1, ConfirmThreshold + 1}

enter_names ==
    /\ \E n \in NameCounts :
          /\ n # session.input_names
          /\ session' = [session EXCEPT !.input_names = n]
    /\ UNCHANGED <<norm_vars, scraper_vars, worker_vars, merge_vars, gui_vars, gui_queue>>

\* The length of the list a window's booking_data refers to.
LenOfData(s) ==
    IF s.booking_data = 0 THEN 0 ELSE s.scrapers[s.booking_data].found

\* A click on the search button while run_search is its slot.
run_search ==
    /\ session.search_button = "run_search"
    /\ session.input_names > ConfirmThreshold \/ Len(session.scrapers) < MaxSearches
    /\ session' =
         IF session.input_names = 0
           THEN session
           ELSE IF session.input_names > ConfirmThreshold
             THEN [session EXCEPT !.search_button_text = "Confirm Search",
                                  !.search_button = "reset_button"]
             ELSE [session EXCEPT
                     !.results_list = [kind |-> "searching", of |-> 0],
                     !.scrapers = Append(@, [pc |-> "running", found |-> 0])]
    /\ session' # session
    /\ UNCHANGED <<norm_vars, scraper_vars, worker_vars, merge_vars, gui_vars, gui_queue>>

\* A click on the search button while the closure reset_button is its slot.
reset_button ==
    /\ session.search_button = "reset_button"
    /\ session' = [session EXCEPT !.search_button_text = "Start Parallel Search",
                                  !.search_button = "run_search"]
    /\ UNCHANGED <<norm_vars, scraper_vars, worker_vars, merge_vars, gui_vars, gui_queue>>

\* The run() of the k-th scraper publishes: search_complete, then data_ready
\* with its all_booking_data.
scraper_run(k) ==
    /\ session.scrapers[k].pc = "running"
    /\ \E n \in 0..MaxBatch :
          session' = [session EXCEPT
             !.scrapers[k] = [pc |-> "done", found |-> n],
             !.events = @ \o <<[sig |-> "search_complete", of |-> k],
                               [sig |-> "data_ready", of |-> k]>>]
    /\ UNCHANGED <<norm_vars, scraper_vars, worker_vars, merge_vars, gui_vars, gui_queue>>

\* display_results, whichever scraper's search_complete it answers: the list
\* is built from self.booking_data.
display_results_of_run ==
    /\ session.events # <<>>
    /\ Head(session.events).sig = "search_complete"
    /\ session' = [session EXCEPT
          !.events = Tail(@),
          !.results_list =
              IF LenOfData(session) = 0
                THEN [kind |-> "no_results", of |-> 0]
                ELSE [kind |-> "summary", of |-> session.booking_data],
          !.export_enabled = (@ \/ LenOfData(session) > 0)]
    /\ UNCHANGED <<norm_vars, scraper_vars, worker_vars, merge_vars, gui_vars, gui_queue>>

\* handle_data_ready, whichever scraper's data_ready it answers.
handle_data_ready_of_run ==
    /\ session.events # <<>>
    /\ Head(session.events).sig = "data_ready"
    /\ LET k == Head(session.events).of
       IN session' = [session EXCEPT
             !.events = Tail(@),
             !.booking_data = k,
             !.export_enabled = (@ \/ session.scrapers[k].found > 0)]
    /\ UNCHANGED <<norm_vars, scraper_vars, worker_vars, merge_vars, gui_vars, gui_queue>>

\* A click on "Clear Results".
clear_results ==
    /\ session' = [session EXCEPT
          !.input_names = 0,
          !.results_list = [kind |-> "empty", of |-> 0],
          !.booking_data = 0,
          !.export_enabled = FALSE]
    /\ session' # session
    /\ UNCHANGED <<norm_vars, scraper_vars, worker_vars, merge_vars, gui_vars, gui_queue>>

WindowNext ==
    \/ enter_names
    \/ run_search
    \/ reset_button
    \/ \E k \in 1..Len(session.scrapers) : scraper_run(k)
    \/ display_results_of_run
    \/ handle_data_ready_of_run
    \/ clear_results

WindowInit ==
    /\ now = MaxDay * MinutesPerDay
    /\ probe = NoProbe
    /\ names_list = [w \in Workers |-> 1]
    /\ max_workers = 1
    /\ ScraperStarted
    /\ session = WindowConstructed

WindowSpec == WindowInit /\ [][WindowNext]_vars

\* ================================================================ properties
RECURSIVE SumOver(_, _)
\* The sum of f[x] over the elements x of S.
SumOver(f, S) ==
    IF S = {} THEN 0
    ELSE LET x == CHOOSE y \in S : TRUE IN f[x] + SumOver(f, S \ {x})

\* The triples emitted so far, as (worker, position) pairs, and their records.
Emitted == {<<w, i>> : w \in Workers, i \in 1..(2 * NumTasks)}
              \cap {p \in Workers \X (1..(2 * NumTasks)) : p[2] <= Len(sent[p[1]])}
RecordsEmitted == SumOver([p \in Emitted |-> Len(sent[p[1]][p[2]].data)], Emitted)

\* The deliveries still in the GUI thread's queue, and their records.
Queued == {i \in 1..Len(gui_queue) : gui_queue[i].sig = "result_ready"}
RecordsQueued == SumOver([i \in Queued |-> Len(gui_queue[i].data)], Queued)

\* The workers whose thread has started and not finished.
Running == {w \in Workers : worker_pc[w] \notin {"created", "Done", "Failed"}}

\* C1: at every moment the number of Search Tasks that have started and not
\* finished is at most max_workers.
C1_BoundedConcurrency == Cardinality(Running) <= max_workers

\* C2: when run() has published its final output, every task's result has been
\* merged: the published Dataset's size is the sum of the tasks' record
\* counts, combined_text holds the text block of every queried name, and
\* completed_count equals the number of queries.
C2_PublishedAfterAllMerged ==
    run_pc = "done" =>
       /\ records_found = RecordsEmitted
       /\ \A w \in Workers :
             \E i \in 1..Len(accumulated_results) :
                 accumulated_results[i].name = names_list[w]
       /\ completed_count = total_count

\* C3: outside the critical section the completed count, the result map and
\* the Dataset agree: every delivery handle_result has taken is counted, and
\* the Dataset holds the records of exactly the deliveries taken.
C3_AtomicMerge ==
    result_mutex = "free" =>
       /\ completed_count = Cardinality(Emitted) - Cardinality(Queued)
       /\ Len(all_booking_data) = RecordsEmitted - RecordsQueued

Diagnostic(triple) ==
    /\ triple.result.kind \in {"error", "start_date_error"}
    /\ triple.data = <<>>

\* C4: a Search Task that fails, in whatever step, ends as a finished thread
\* that has delivered a triple for its name whose result text is a diagnostic
\* and whose record list is empty.
C4_FailureDeliversDiagnostic ==
    \A w \in Workers :
       /\ worker_pc[w] \in {"created", "setup", "navigate", "login", "query",
                            "collect", "quit", "quit_error", "Done", "Failed"}
       /\ worker_pc[w] = "Failed" =>
             /\ sent[w] # <<>>
             /\ sent[w][Len(sent[w])].name = names_list[w]
             /\ Diagnostic(sent[w][Len(sent[w])])
             /\ failed_in[w] \in {"setup", "navigate", "login", "query", "collect"}
                   => \A i \in 1..Len(sent[w]) : Diagnostic(sent[w][i])

C4_Witness ==
    \E w \in Workers :
       /\ worker_pc[w] = "Failed"
       /\ failed_in[w] = "login"
       /\ Len(sent[w]) = 1
       /\ \E v \in Workers : worker_pc[v] = "Done" /\ sent[v][1].data # <<>>

\* The records of the tasks that reached Done are in the Dataset.
Succeeded(w) == worker_pc[w] = "Done" /\ sent[w][1].result.kind = "results"
SucceededRecordsPublished ==
    \A w \in Workers :
       Succeeded(w) =>
          \A i \in 1..Len(sent[w][1].data) :
             \E j \in 1..Len(all_booking_data) :
                 all_booking_data[j] = sent[w][1].data[i]

\* C5: once every task has terminated the run publishes its final result, and
\* the published Dataset holds the records of every task that succeeded.
C5_FailureIsolated ==
    /\ (\A w \in Workers : Finished(w)) ~> (run_pc = "done")
    /\ [](run_pc = "done" => SucceededRecordsPublished)

\* C6: leaving the try block of handle_result by an exception leaves the
\* Dataset as it was and still counts the task as completed.
C6_MergeExceptionCounted ==
    [][(gui_pc = "merge" /\ gui_pc' = "unlock")
          => /\ completed_count' = completed_count + 1
             /\ all_booking_data' \in {all_booking_data,
                    all_booking_data \o valid_records(gui_event.name, gui_event.data)}]_vars

\* The release-date text, lowercased, trimmed and without a "time: ..." suffix,
\* parses to a date that is not after t.
ResolvesToPast(release, t) ==
    LET clean == RemoveTimeSuffix(Lower(Strip(release)))
    IN parse_date(clean).ok /\ parse_date(clean).t <= t

HasCustodyKeyword(location) ==
    \E i \in 1..Len(custody_indicators) :
       Contains(Lower(Strip(location)), custody_indicators[i])

\* C7: a release-date text that resolves to a date not in the future gives
\* Released, whatever custody keywords the location text holds.
C7_PastReleaseWins ==
    (probe.fn = "determine_status" /\ ResolvesToPast(probe.release, probe.at))
       => probe.status = "Released"

C7_Witness ==
    /\ probe.fn = "determine_status"
    /\ ResolvesToPast(probe.release, probe.at)
    /\ HasCustodyKeyword(probe.location)
    /\ probe.status = "Released"

\* C8: when the release-date text does not resolve to a past or present date,
\* the status is In Custody if the location holds a custody keyword, else In
\* Custody if the release-date text is "n/a" in any case, else Unknown.
C8_CustodyWithoutPastRelease ==
    (probe.fn = "determine_status" /\ ~ResolvesToPast(probe.release, probe.at))
       => probe.status =
            IF HasCustodyKeyword(probe.location) THEN "In Custody"
            ELSE IF Lower(Strip(probe.release)) = <<W("n/a")>> THEN "In Custody"
            ELSE "Unknown"

C8_Witness ==
    /\ probe.fn = "determine_status"
    /\ probe.release = <<W("N/A")>>
    /\ probe.location = <<W("Main Jail")>>
    /\ probe.status = "In Custody"

Max(a, b) == IF a >= b THEN a ELSE b

\* C9: time served is a non-negative integer: max(1, (release - booking).days)
\* when both dates parse and the release is after the booking,
\* max(0, (now - booking).days) when only the booking date parses, and 0 when
\* the booking date does not parse.
C9_TimeServed ==
    probe.fn = "structured_data" =>
       LET booking == parse_date(booking_date_str_of(probe.block))
           release == release_date_of(probe.block)
           days == probe.record["Time Served (Days)"]
       IN /\ days \in Nat
          /\ (booking.ok /\ release.ok /\ release.t > booking.t)
                => days = Max(1, (release.t - booking.t) \div MinutesPerDay)
          /\ (booking.ok /\ ~release.ok)
                => days = Max(0, (probe.at - booking.t) \div MinutesPerDay)
          /\ ~booking.ok => days = 0

C9_Witness ==
    /\ probe.fn = "structured_data"
    /\ parse_date(booking_date_str_of(probe.block)).ok
    /\ release_date_of(probe.block).ok
    /\ release_date_of(probe.block).t > parse_date(booking_date_str_of(probe.block)).t
    /\ release_date_of(probe.block).t - parse_date(booking_date_str_of(probe.block)).t
          < MinutesPerDay
    /\ probe.record["Time Served (Days)"] = 1

HasLine(text, line) ==
    \E i \in 1..Len(SplitLines(text)) : SplitLines(text)[i] = line

\* Scenario 2: booked 01/01/2024 10:00, released 01/10/2024 08:00, normalized
\* after the release.
Scenario2 ==
    /\ probe.fn = "structured_data"
    /\ HasLine(probe.block, <<Lbl("Booking Date/Time:"), Sp, D4(0), Sp, HM(600)>>)
    /\ HasLine(probe.block, <<Lbl("Release Date:"), Sp, D4(9), Sp, HM(480)>>)
    /\ probe.at >= 9 * MinutesPerDay + 480

\* C10 as stated: the record is Released with 9 days served.
C10_ReleasedNineDays ==
    Scenario2 =>
       /\ probe.record["Status"] = "Released"
       /\ probe.record["Time Served (Days)"] = 9

\* C10 as amended: the record is Released with 8 days served, the whole days
\* between the two datetimes (8 days and 22 hours).
C10_ReleasedEightDays ==
    Scenario2 =>
       /\ probe.record["Status"] = "Released"
       /\ probe.record["Time Served (Days)"] = 8

C10_Witness ==
    /\ Scenario2
    /\ probe.record["Status"] = "Released"
    /\ probe.record["Release Date"] = <<D4(9), Sp, HM(480)>>

RequiredFields == {"Booking Number", "Status"}

\* A delivery is being merged (not dropped by the except branch).
Merging == gui_pc = "merge" /\ completed_count' = completed_count + 1

\* The record of the Dataset that the i-th record of the delivery becomes.
MergedRecord(i) == all_booking_data'[Len(all_booking_data) + i]

\* C11: every record of the Dataset has a Booking Number and a Status.
C11_RequiredFieldsPresent ==
    \A i \in 1..Len(all_booking_data) : RequiredFields \subseteq DOMAIN all_booking_data[i]

C11_Witness ==
    /\ Len(sent[1]) = 2
    /\ Len(all_booking_data) >= 2
    /\ sent[1][1].data[Len(sent[1][1].data)] = Without(FillerRecord, {"Status"})
    /\ sent[1][2].data = <<Without(FillerRecord, RequiredFields)>>
    /\ RequiredFields \subseteq DOMAIN all_booking_data[Len(all_booking_data)]

\* The record is the one a Search Task makes of an entry whose text has no
\* "Booking Number:" label.
FromBlockWithoutNumber(record) ==
    /\ "Raw Data" \in DOMAIN record
    /\ \A j \in 1..Len(record["Raw Data"]) : record["Raw Data"][j] # Lbl("Booking Number:")
    /\ record = structured_data(gui_event.name, record["Raw Data"], now)

\* C12: an entry without a "Booking Number:" label at index i of its batch is
\* in the Dataset with booking number "Unknown-<i>".
C12_UnknownIndex ==
    [][Merging =>
         \A i \in 1..Len(gui_event.data) :
            FromBlockWithoutNumber(gui_event.data[i])
               => MergedRecord(i)["Booking Number"] = <<W("Unknown-"), Num(i - 1)>>]_vars

\* C13: the repair leaves a record that has both required fields as it is,
\* and repairing a repaired record changes nothing.
C13_RepairIdempotent ==
    gui_pc = "merge" =>
       \A i \in 1..Len(gui_event.data) :
          LET record == gui_event.data[i]
              once == repair_record(record, i - 1)
          IN /\ RequiredFields \subseteq DOMAIN record => once = record
             /\ repair_record(once, i - 1) = once

C13_Witness ==
    /\ gui_pc = "unlock"
    /\ Len(gui_event.data) = 2
    /\ RequiredFields \cap DOMAIN gui_event.data[2] = {}
    /\ Len(all_booking_data) = 2
    /\ all_booking_data[1] = gui_event.data[1]
    /\ all_booking_data[2] = repair_record(all_booking_data[2], 1)

NoReleaseSentinels == {<<W("N/A")>>, <<>>, <<W("Still in custody")>>}

C14_DelayBoundsOrdered ==
    probe.fn = "run_search" =>
       /\ probe.min_delay = probe.min_spin
       /\ probe.max_delay > probe.min_delay
       /\ probe.max_spin <= probe.min_spin => probe.max_delay = probe.min_spin + 1
       /\ probe.max_spin > probe.min_spin => probe.max_delay = probe.max_spin

C14_Witness ==
    /\ probe.fn = "run_search"
    /\ probe.max_spin = probe.min_spin
    /\ probe.max_delay = probe.min_delay + 1

\* How many times the record occurs in the list.
CountIn(list, record) == Cardinality({i \in 1..Len(list) : list[i] = record})

\* Every Search Task has ended and every delivery has been merged.
AllMerged ==
    /\ \A w \in Workers : Finished(w)
    /\ gui_pc = "idle"
    /\ Queued = {}
    /\ completed_count = Cardinality(Emitted)

\* The records of the task results, as the merge stores them.
ResultRecords ==
    UNION {{valid_records(sent[p[1]][p[2]].name, sent[p[1]][p[2]].data)[i] :
              i \in 1..Len(sent[p[1]][p[2]].data)} : p \in Emitted}

\* C15: once every task result is merged, the Dataset holds each record as
\* many times as the task results do, whatever the order of completion.
C15_OrderIndependent ==
    AllMerged =>
       /\ \A i \in 1..Len(all_booking_data) : all_booking_data[i] \in ResultRecords
       /\ \A record \in ResultRecords :
             CountIn(all_booking_data, record)
                = SumOver([p \in Emitted |->
                             CountIn(valid_records(sent[p[1]][p[2]].name,
                                                   sent[p[1]][p[2]].data), record)],
                          Emitted)

\* The second task's record was merged before the first task's.
C15_Witness ==
    /\ AllMerged
    /\ names_list = <<1, 2>>
    /\ Len(all_booking_data) = 2
    /\ all_booking_data[1]["Name"] = 2
    /\ all_booking_data[2]["Name"] = 1

\* C16: each handled delivery is followed by one progress notification whose
\* count is one more than the last one's and never more than the total, so
\* the counts of a run are 1, 2, ..., N and the last percentage is 100.
C16_ProgressCountsUp ==
    [][(gui_pc = "progress" /\ gui_pc' = "idle")
          => /\ progress_label' = <<progress_label[1] + 1, total_count>>
             /\ progress_label'[1] <= total_count]_vars

\* The keys of the exported records, without Raw Data.
ExportedKeys == all_fieldnames(probe.data) \ {"Raw Data"}

\* The position of a column name in ascending string order.
Rank(col) == CHOOSE i \in 1..Len(AlphabeticalKeys) : AlphabeticalKeys[i] = col

\* C17 as stated: the CSV columns are the keys of the exported records minus
\* Raw Data, the eight preferred columns first and the rest alphabetically.
C17_PreferredColumnOrder ==
    probe.fn = "export_to_csv" =>
       probe.fieldnames =
          SelectSeq(ordered_columns, LAMBDA col : col \in ExportedKeys)
             \o SelectSeq(AlphabeticalKeys,
                          LAMBDA col : col \in ExportedKeys /\ ~InSeq(col, ordered_columns))

\* C17 as amended: the CSV columns are the keys of the exported records
\* minus Raw Data, each once, all of them in ascending alphabetical order.
C17_AlphabeticalColumns ==
    probe.fn = "export_to_csv" =>
       /\ {probe.fieldnames[i] : i \in 1..Len(probe.fieldnames)} = ExportedKeys
       /\ \A i, j \in 1..Len(probe.fieldnames) :
             i < j => Rank(probe.fieldnames[i]) < Rank(probe.fieldnames[j])

C17_Witness ==
    /\ probe.fn = "export_to_csv"
    /\ Len(probe.data) = 2
    /\ "Raw Data" \in all_fieldnames(probe.data)
    /\ "Age" \in DOMAIN probe.data[2] /\ "Age" \notin DOMAIN probe.data[1]
    /\ probe.fieldnames[1] = "Age"
    /\ probe.fieldnames[Len(probe.fieldnames)] = "Time Served (Days)"

\* C20: the Release Date field of a Search Task's record is the extracted
\* release-date text when the Status is Released, and "Still in custody" for
\* any other status.
C20_ReleaseDateField ==
    probe.fn = "structured_data" =>
       /\ probe.record["Status"] \in {"Released", "In Custody", "Unknown"}
       /\ probe.record["Status"] = "Released"
             => probe.record["Release Date"] = extract_value(probe.block, "Release Date:")
       /\ probe.record["Status"] # "Released"
             => probe.record["Release Date"] = <<W("Still in custody")>>

C20_Witness ==
    /\ probe.fn = "structured_data"
    /\ extract_value(probe.block, "Release Date:") = <<W("Pending")>>
    /\ probe.record["Status"] = "Unknown"
    /\ probe.record["Release Date"] = <<W("Still in custody")>>

\* The text after the label on the first line of the block that holds it,
\* trimmed; empty when no line holds the label.
ValueOnLine(text, label) ==
    LET lines == SplitLines(text)
        found == {i \in 1..Len(lines) : HasLabel(lines[i], label)}
    IN IF found = {} THEN <<>> ELSE Strip(RemoveLabel(lines[MinOf(found)], label))

\* C21: extract_value(text, "Cell Location:") is the explicit value when that
\* is not empty; when it is empty or there is no such label, it is the
\* Facility value, unless that is empty or "NO FILE" in any case.
C21_CellLocationFallback ==
    probe.fn = "extract_value" =>
       LET explicit == ValueOnLine(probe.block, "Cell Location:")
           facility == ValueOnLine(probe.block, "Facility:")
       IN /\ explicit # <<>> => probe.value = explicit
          /\ (explicit = <<>> /\ facility # <<>> /\ Lower(facility) # <<W("no file")>>)
                => probe.value = facility

\* C22: the mutex is held only inside the merge of one delivery, it is
\* released on every path out of it, and whoever holds it lets go of it.
C22_LockReleased ==
    /\ [](result_mutex = "held" <=> gui_pc \in {"merge", "unlock"})
    /\ (result_mutex = "held") ~> (result_mutex = "free")

\* The merge raised and the mutex is free again.
C22_Witness ==
    /\ gui_pc = "progress"
    /\ gui_event.data # <<>>
    /\ all_booking_data = <<>>
    /\ completed_count = 0
    /\ result_mutex = "free"

\* C24: every Search Task sends one triple at most, and exactly one when it
\* has ended, so the completed count never exceeds the number of names.
C24_DeliveredOnce ==
    /\ \A w \in Workers : Len(sent[w]) <= 1
    /\ \A w \in Workers : Finished(w) => Len(sent[w]) = 1
    /\ completed_count <= total_count

\* display_results runs: the search_complete event is taken off the queue.
Displaying ==
    /\ gui_pc = "idle"
    /\ gui_queue # <<>>
    /\ Head(gui_queue).sig = "search_complete"
    /\ gui_queue' = Tail(gui_queue)

\* C25: when display_results runs and the run's Dataset holds records, the
\* summary list is built from them and does not say "No results found".
C25_SummaryFromDataset ==
    [][(Displaying /\ all_booking_data # <<>>)
          => /\ results_list'.kind = "summary"
             /\ \A i \in 1..Len(all_booking_data) :
                   CountIn(results_list'.records, all_booking_data[i])
                      = CountIn(all_booking_data, all_booking_data[i])]_vars

\* The release date as the status resolver reads it: lowercased, trimmed and
\* without a "time: ..." suffix.
ResolvedRelease(text) ==
    parse_date(RemoveTimeSuffix(Lower(Strip(extract_value(text, "Release Date:")))))

\* C29: a Released record whose booking date parses and is before its release
\* date has the days from booking to release as time served (1 at least),
\* whatever the clock says.
C29_ReleasedServedToRelease ==
    (/\ probe.fn = "structured_data"
     /\ probe.record["Status"] = "Released"
     /\ parse_date(booking_date_str_of(probe.block)).ok
     /\ parse_date(booking_date_str_of(probe.block)).t < ResolvedRelease(probe.block).t)
       => probe.record["Time Served (Days)"]
            = Max(1, (ResolvedRelease(probe.block).t
                        - parse_date(booking_date_str_of(probe.block)).t) \div MinutesPerDay)

\* The words of the line before its first comma, and from there to the next.
BeforeComma(line) == SelectSeq(SplitCommas(line)[1], LAMBDA tok : tok.k = "w")
AfterComma(line) == SelectSeq(SplitCommas(line)[2], LAMBDA tok : tok.k = "w")

\* The line gives a last name and a first name.
GivesPair(line) ==
    /\ Len(SplitCommas(line)) >= 2
    /\ BeforeComma(line) # <<>>
    /\ AfterComma(line) # <<>>

RECURSIVE PairsOf(_)
PairsOf(lines) ==
    IF lines = <<>> THEN <<>>
    ELSE (IF GivesPair(Head(lines))
            THEN <<<<BeforeComma(Head(lines))[1], AfterComma(Head(lines))[1]>>>>
            ELSE <<>>) \o PairsOf(Tail(lines))

\* C23: the names are the pairs of the lines that give one, a line that gives
\* none is skipped without an exception, and no pair means no search.
C23_NamesParsed ==
    probe.fn = "parse_names" =>
       /\ ~probe.raised
       /\ probe.names_list = PairsOf(probe.lines)
       /\ probe.started = (PairsOf(probe.lines) # <<>>)


\* C26: with more than 50 names the first click starts no search and turns
\* the button into "Confirm Search"; the following click on "Confirm Search",
\* the names left as they are, starts the search.
C26_ConfirmStartsSearch ==
    [][/\ (session.search_button_text = "Start Parallel Search"
             /\ session'.search_button_text = "Confirm Search")
            => /\ session.input_names > ConfirmThreshold
               /\ session'.scrapers = session.scrapers
       /\ (session.search_button_text = "Confirm Search"
             /\ session'.search_button_text # "Confirm Search")
            => Len(session'.scrapers) = Len(session.scrapers) + 1]_vars

\* Every scraper of the window has published and the window has handled
\* every signal.
AllSearchesFinished ==
    /\ session.events = <<>>
    /\ \A k \in 1..Len(session.scrapers) : session.scrapers[k].pc = "done"

\* C27: once every search started in the window has finished, the window's
\* stored dataset is that of the search started last (or the empty list a
\* "Clear Results" left), also when a search was started while an earlier one
\* was still running.
C27_LatestSearchStored ==
    (AllSearchesFinished /\ Len(session.scrapers) > 0)
        => session.booking_data \in {0, Len(session.scrapers)}

\* C28: the export buttons are enabled only while the window's stored dataset
\* is non-empty.
C28_ExportOnlyWithData ==
    session.export_enabled => LenOfData(session) > 0


\* C30: exporting the filtered view passes to the exporter exactly the
\* records shown in the visible rows, one per visible row, also when several
\* records share Name and Booking Number.
C30_ExportsVisibleRows ==
    probe.fn = "export_filtered_data" =>
        \A r \in ViewRecords :
            CountIn(probe.visible_records, r)
              = Cardinality({row \in 1..Len(probe.data) :
                                row \notin probe.hidden /\ probe.data[row] = r})

====
